---- MODULE Spec2Model ----
(***************************************************************************)
(* flask-sec-fetch-csrf: the before_request hook of SecFetchCSRF, its      *)
(* configuration and its exemption registry, as a state machine.           *)
(*                                                                         *)
(* Python strings are TLA+ strings (TLC evaluates Len, Head, Tail, SubSeq  *)
(* and \o on them), so lower(), strip(), urlparse(), int() and str() are   *)
(* computed character by character, as the library computes them.          *)
(* An optional value (None or a string) is a tuple of length 0 or 1.       *)
(***************************************************************************)
EXTENDS Naturals, Sequences, FiniteSets, TLC

None == << >>
Some(s) == << s >>

\* Python truthiness of an optional string: None and "" are falsy.
truthy(o) == o # None /\ o[1] # ""

(***************************************************************************)
(* str methods                                                             *)
(***************************************************************************)
Char(s, i) == SubSeq(s, i, i)

Min(S) == CHOOSE m \in S : \A k \in S : m <= k

\* s.find(c, from): the first 1-based index >= from of character c, 0 if none.
Find(s, c, from) ==
    LET hits == { i \in from..Len(s) : Char(s, i) = c }
    IN  IF hits = {} THEN 0 ELSE Min(hits)

\* s.rfind(c): the last index of character c, 0 if none.
RFind(s, c) ==
    LET hits == { i \in 1..Len(s) : Char(s, i) = c }
    IN  IF hits = {} THEN 0 ELSE CHOOSE m \in hits : \A k \in hits : k <= m

Contains(s, c) == Find(s, c, 1) # 0

ascii_uppercase == "ABCDEFGHIJKLMNOPQRSTUVWXYZ"
ascii_lowercase == "abcdefghijklmnopqrstuvwxyz"
digits == "0123456789"

LowerChar(c) ==
    LET i == Find(ascii_uppercase, c, 1)
    IN  IF i = 0 THEN c ELSE Char(ascii_lowercase, i)

RECURSIVE lower(_)
lower(s) == IF s = "" THEN "" ELSE LowerChar(Head(s)) \o lower(Tail(s))

\* The characters str.strip() removes (the ones a header value can carry).
Whitespace == { " ", "\t" }

RECURSIVE lstrip(_)
lstrip(s) == IF s # "" /\ Head(s) \in Whitespace THEN lstrip(Tail(s)) ELSE s

RECURSIVE rstrip(_)
rstrip(s) ==
    IF s # "" /\ Char(s, Len(s)) \in Whitespace
    THEN rstrip(SubSeq(s, 1, Len(s) - 1))
    ELSE s

strip(s) == rstrip(lstrip(s))

\* s.lstrip(cs): leading characters of the set cs removed.
RECURSIVE lstrip_chars(_, _)
lstrip_chars(s, cs) ==
    IF s # "" /\ Head(s) \in cs THEN lstrip_chars(Tail(s), cs) ELSE s

\* str.isdigit() and str.isascii() together: non-empty, ASCII digits only.
isdigit(s) == s # "" /\ \A i \in 1..Len(s) : Contains(digits, Char(s, i))

RECURSIVE int(_)
int(s) ==
    IF s = "" THEN 0
    ELSE 10 * int(SubSeq(s, 1, Len(s) - 1)) + (Find(digits, Char(s, Len(s)), 1) - 1)

RECURSIVE str(_)
str(n) ==
    IF n < 10 THEN Char(digits, n + 1)
    ELSE str(n \div 10) \o Char(digits, (n % 10) + 1)

\* s with every character of the set cs removed (str.replace(b, "") for b in cs).
RECURSIVE remove(_, _)
remove(s, cs) ==
    IF s = "" THEN ""
    ELSE (IF Head(s) \in cs THEN "" ELSE Head(s)) \o remove(Tail(s), cs)

\* s.partition(c): the text before the first c, whether c occurs, the text after.
partition(s, c) ==
    LET i == Find(s, c, 1)
    IN  IF i = 0
        THEN [before |-> s, sep |-> FALSE, after |-> ""]
        ELSE [before |-> SubSeq(s, 1, i - 1), sep |-> TRUE,
              after |-> SubSeq(s, i + 1, Len(s))]

(***************************************************************************)
(* urllib.parse.urlparse, as far as .hostname and .port depend on it       *)
(***************************************************************************)
scheme_chars == ascii_lowercase \o ascii_uppercase \o digits \o "+-."

\* The characters of _WHATWG_C0_CONTROL_OR_SPACE a header value can carry.
WHATWG_C0_CONTROL_OR_SPACE == { " ", "\t" }
UNSAFE_URL_BYTES_TO_REMOVE == { "\t" }

\* _splitnetloc(url, 2): the end of the domain part, 1-based and exclusive.
splitnetloc_delim(url) ==
    Min({ Len(url) + 1 } \cup
        { i \in 3..Len(url) : Char(url, i) \in { "/", "?", "#" } })

\* The end of urlsplit: ValueError("Invalid IPv6 URL") on an unmatched bracket.
SplitResult(scheme, netloc) ==
    [exc |-> IF Contains(netloc, "[") # Contains(netloc, "]")
             THEN "ValueError" ELSE "",
     scheme |-> scheme,
     netloc |-> netloc]

\* urlsplit after the scheme: the netloc is what follows a leading "//".
split_netloc(scheme, url) ==
    IF Len(url) >= 2 /\ SubSeq(url, 1, 2) = "//"
    THEN SplitResult(scheme, SubSeq(url, 3, splitnetloc_delim(url) - 1))
    ELSE SplitResult(scheme, "")

\* urlsplit at the first ":" (index i, 0 if none): the text before it is the
\* scheme when it starts with a letter and holds scheme characters only.
split_scheme(url, i) ==
    IF /\ i > 1
       /\ Contains(ascii_lowercase \o ascii_uppercase, Char(url, 1))
       /\ \A k \in 1..(i - 1) : Contains(scheme_chars, Char(url, k))
    THEN split_netloc(lower(SubSeq(url, 1, i - 1)), SubSeq(url, i + 1, Len(url)))
    ELSE split_netloc("", url)

url_find_colon(url) == split_scheme(url, Find(url, ":", 1))

\* urlparse(url): [exc, scheme, netloc]; exc is "ValueError" when it raises.
urlparse(origin) ==
    url_find_colon(remove(lstrip_chars(origin, WHATWG_C0_CONTROL_OR_SPACE),
                          UNSAFE_URL_BYTES_TO_REMOVE))

\* _hostinfo when the host is bracketed: "[" hostname "]" then ":" port.
hostinfo_bracketed(closed) ==
    [hostname |-> closed.before, port |-> partition(closed.after, ":").after]

\* _hostinfo otherwise: hostname ":" port.
hostinfo_plain(plain) ==
    [hostname |-> plain.before, port |-> plain.after]

hostinfo_split(info, br) ==
    IF br.sep THEN hostinfo_bracketed(partition(br.after, "]"))
    ELSE hostinfo_plain(partition(info, ":"))

hostinfo_after_userinfo(info) == hostinfo_split(info, partition(info, "["))

\* SplitResult._hostinfo: hostname and port as text (port "" when there is none).
hostinfo(netloc) ==
    hostinfo_after_userinfo(SubSeq(netloc, RFind(netloc, "@") + 1, Len(netloc)))

hostname_zone(z) == lower(z.before) \o (IF z.sep THEN "%" ELSE "") \o z.after

hostname_or_none(hostname) ==
    IF hostname = "" THEN None ELSE Some(hostname_zone(partition(hostname, "%")))

\* SplitResult.hostname: None when empty, else lower-cased up to a "%" zone.
parsed_hostname(parsed) == hostname_or_none(hostinfo(parsed.netloc).hostname)

\* if not (0 <= port <= 65535): raise ValueError("Port out of range 0-65535")
port_in_range(n) ==
    IF n > 65535
    THEN [exc |-> "ValueError", none |-> FALSE, value |-> 0]
    ELSE [exc |-> "", none |-> FALSE, value |-> n]

port_or_none(port) ==
    IF port = "" THEN [exc |-> "", none |-> TRUE, value |-> 0]
    ELSE IF ~isdigit(port)
    THEN [exc |-> "ValueError", none |-> FALSE, value |-> 0]
    ELSE port_in_range(int(port))

\* SplitResult.port: [exc, none, value]; none when there is no port text, exc
\* "ValueError" when the text is no number or is out of range.
parsed_port(parsed) == port_or_none(hostinfo(parsed.netloc).port)

(***************************************************************************)
(* The application the extension is installed on                           *)
(***************************************************************************)
\* A view function and a blueprint, as exempt() receives them.
ViewFunction(module, name) ==
    [type |-> "function", module |-> module, name |-> name]
BlueprintObject(name) ==
    [type |-> "Blueprint", module |-> "", name |-> name]

submit == ViewFunction("tests.conftest", "submit")
webhook == ViewFunction("tests.test_csrf", "webhook")
api_endpoint == ViewFunction("tests.test_csrf", "api_endpoint")
child_endpoint == ViewFunction("tests.test_csrf", "child_endpoint")

api == BlueprintObject("api")
child == BlueprintObject("child")

\* app.view_functions: endpoint -> view function.  "static" has a URL rule and
\* no view function; "admin.child.endpoint" belongs to the blueprint child
\* nested in admin, for which request.blueprint is "admin.child".
view_functions ==
    ("submit" :> submit) @@ ("webhook" :> webhook) @@
    ("api.endpoint" :> api_endpoint) @@
    ("admin.child.endpoint" :> child_endpoint)

Endpoints == DOMAIN view_functions \cup { "static" }

\* request.blueprint: the endpoint's text before its last ".", None without one.
request_blueprint(endpoint) ==
    IF endpoint = None \/ RFind(endpoint[1], ".") = 0 THEN None
    ELSE Some(SubSeq(endpoint[1], 1, RFind(endpoint[1], ".") - 1))

\* f"{view.__module__}.{view.__name__}"
view_location(view) == view.module \o "." \o view.name

(***************************************************************************)
(* Configuration                                                           *)
(***************************************************************************)
METHODS == "SEC_FETCH_CSRF_METHODS"
ALLOW_SAME_SITE == "SEC_FETCH_CSRF_ALLOW_SAME_SITE"
TRUSTED_ORIGINS == "SEC_FETCH_CSRF_TRUSTED_ORIGINS"

DEFAULT_METHODS == { "POST", "PUT", "PATCH", "DELETE" }

\* app.config.setdefault(key, value)
setdefault(cfg, key, value) ==
    IF key \in DOMAIN cfg THEN cfg ELSE cfg @@ (key :> value)

\* app.config[key] = value
setitem(cfg, key, value) ==
    [k \in DOMAIN cfg \cup { key } |-> IF k = key THEN value ELSE cfg[k]]

\* SAFE_METHODS as the class docstring lists them, without TRACE.
SAFE_METHODS_docstring == { "GET", "HEAD", "OPTIONS" }

SAFE_METHODS == { "GET", "HEAD", "OPTIONS", "TRACE" }

(***************************************************************************)
(* The verdict of the hook on one request                                  *)
(***************************************************************************)
\* The handler returned None at the named step: the request proceeds.
Allow(step) == [kind |-> "Allow", step |-> step, reason |-> ""]
\* raise CSRFError(reason)
CSRFError(step, reason) == [kind |-> "Reject", step |-> step, reason |-> reason]
\* Any other exception leaving the handler.
Raise(step, exc) == [kind |-> "Error", step |-> step, reason |-> exc]
Pending == [kind |-> "Pending", step |-> "", reason |-> ""]

\* request.headers.get(name): an optional string.
headers_get(req, name) ==
    IF name \in DOMAIN req.headers THEN Some(req.headers[name]) ELSE None

\* f"{parsed.hostname}:{parsed.port}"
format_host_port(hostname, port) ==
    (IF hostname = None THEN "None" ELSE hostname[1]) \o ":" \o str(port)

\* The body of _extract_host once parsed.port has been read.
extract_with_port(parsed, port) ==
    IF port.exc # "" THEN [exc |-> port.exc, host |-> None]
    ELSE IF ~port.none /\ port.value # 0 /\ port.value \notin { 80, 443 }
    THEN [exc |-> "", host |-> Some(format_host_port(parsed_hostname(parsed),
                                                     port.value))]
    ELSE [exc |-> "", host |-> parsed_hostname(parsed)]

\* The body of _extract_host once urlparse has returned or raised.
extract_parsed(parsed) ==
    IF parsed.exc # "" THEN [exc |-> parsed.exc, host |-> None]
    ELSE extract_with_port(parsed, parsed_port(parsed))

\* SecFetchCSRF._extract_host(origin): [exc, host]; host is an optional string.
_extract_host(origin) == extract_parsed(urlparse(origin))

\* SecFetchCSRF._get_target_host()
_get_target_host(req) ==
    IF "X-Forwarded-Host" \in DOMAIN req.headers
    THEN req.headers["X-Forwarded-Host"]
    ELSE req.host

\* The comparison of _validate_origin.
compare_hosts(origin, origin_host, target_host) ==
    IF origin_host.exc # "" THEN Raise("origin", origin_host.exc)
    ELSE IF origin_host.host # Some(target_host)
    THEN CSRFError("origin", "Origin mismatch: " \o origin)
    ELSE Allow("origin")

\* SecFetchCSRF._validate_origin(origin)
_validate_origin(req, origin) ==
    compare_hosts(origin, _extract_host(origin), _get_target_host(req))

\* _validate_sec_fetch_site with the unknown-value message built from the header
\* as received instead of the normalised value.
_validate_sec_fetch_site_verbatim(cfg, header) ==
    LET sec_fetch_site == strip(lower(header))
    IN  IF sec_fetch_site \in { "same-origin", "none" } THEN Allow("sec_fetch_site")
        ELSE IF sec_fetch_site = "same-site"
        THEN IF cfg[ALLOW_SAME_SITE]
             THEN Allow("sec_fetch_site")
             ELSE CSRFError("sec_fetch_site", "Same-site requests are not allowed.")
        ELSE IF sec_fetch_site = "cross-site"
        THEN CSRFError("sec_fetch_site", "Cross-site requests are not allowed.")
        ELSE CSRFError("sec_fetch_site", "Unknown Sec-Fetch-Site value: " \o header)

\* SecFetchCSRF._validate_sec_fetch_site(sec_fetch_site)
_validate_sec_fetch_site(cfg, header) ==
    LET sec_fetch_site == strip(lower(header))
    IN  IF sec_fetch_site = "same-origin" THEN Allow("sec_fetch_site")
        ELSE IF sec_fetch_site = "none" THEN Allow("sec_fetch_site")
        ELSE IF sec_fetch_site = "same-site"
        THEN IF cfg[ALLOW_SAME_SITE]
             THEN Allow("sec_fetch_site")
             ELSE CSRFError("sec_fetch_site", "Same-site requests are not allowed.")
        ELSE IF sec_fetch_site = "cross-site"
        THEN CSRFError("sec_fetch_site", "Cross-site requests are not allowed.")
        ELSE CSRFError("sec_fetch_site",
                       "Unknown Sec-Fetch-Site value: " \o sec_fetch_site)

\* protect with Sec-Fetch-Site evaluated before the trusted-origin allowlist.
protect_sec_fetch_site_first(req, cfg) ==
    LET origin == headers_get(req, "Origin")
        sec_fetch_site == headers_get(req, "Sec-Fetch-Site")
    IN  IF truthy(sec_fetch_site)
        THEN _validate_sec_fetch_site(cfg, sec_fetch_site[1])
        ELSE IF truthy(origin) /\ origin[1] \in cfg[TRUSTED_ORIGINS]
        THEN Allow("trusted_origin")
        ELSE IF ~truthy(origin) THEN Allow("no_headers")
        ELSE _validate_origin(req, origin[1])

\* protect without step 4: a request with neither header is refused.
protect_without_bypass(req, cfg) ==
    LET origin == headers_get(req, "Origin")
        sec_fetch_site == headers_get(req, "Sec-Fetch-Site")
    IN  IF truthy(origin) /\ origin[1] \in cfg[TRUSTED_ORIGINS]
        THEN Allow("trusted_origin")
        ELSE IF truthy(sec_fetch_site)
        THEN _validate_sec_fetch_site(cfg, sec_fetch_site[1])
        ELSE IF ~truthy(origin) THEN CSRFError("no_headers", "Origin mismatch: None")
        ELSE _validate_origin(req, origin[1])

\* SecFetchCSRF.protect()
protect(req, cfg) ==
    LET origin == headers_get(req, "Origin")
        sec_fetch_site == headers_get(req, "Sec-Fetch-Site")
        trusted_origins == cfg[TRUSTED_ORIGINS]
    IN  IF truthy(origin) /\ origin[1] \in trusted_origins
        THEN Allow("trusted_origin")
        ELSE IF truthy(sec_fetch_site)
        THEN _validate_sec_fetch_site(cfg, sec_fetch_site[1])
        ELSE IF ~truthy(origin) THEN Allow("no_headers")
        ELSE _validate_origin(req, origin[1])

\* _is_exempt without the blueprint lookup.
_is_exempt_without_blueprints(req, exempt_views, exempt_blueprints) ==
    \/ req.g_csrf_exempt
    \/ /\ req.endpoint # None
       /\ req.endpoint[1] \in DOMAIN view_functions
       /\ view_location(view_functions[req.endpoint[1]]) \in exempt_views

\* SecFetchCSRF._is_exempt()
_is_exempt(req, exempt_views, exempt_blueprints) ==
    \/ req.g_csrf_exempt
    \/ /\ req.blueprint # None
       /\ req.blueprint[1] \in exempt_blueprints
    \/ /\ req.endpoint # None
       /\ req.endpoint[1] \in DOMAIN view_functions
       /\ view_location(view_functions[req.endpoint[1]]) \in exempt_views

\* The handler without the SEC_FETCH_CSRF_METHODS and endpoint checks.
sec_fetch_csrf_protect_every_request(req, cfg, exempt_views, exempt_blueprints) ==
    IF req.method \in SAFE_METHODS THEN Allow("safe_method")
    ELSE IF _is_exempt(req, exempt_views, exempt_blueprints) THEN Allow("exempt")
    ELSE protect(req, cfg)

\* The before_request handler init_app registers.
sec_fetch_csrf_protect(req, cfg, exempt_views, exempt_blueprints) ==
    IF req.method \in SAFE_METHODS THEN Allow("safe_method")
    ELSE IF req.method \notin cfg[METHODS] THEN Allow("unprotected_method")
    ELSE IF req.endpoint = None THEN Allow("no_endpoint")
    ELSE IF _is_exempt(req, exempt_views, exempt_blueprints) THEN Allow("exempt")
    ELSE protect(req, cfg)

(***************************************************************************)
(* Inputs: configuration values, exemptable objects and requests           *)
(***************************************************************************)
\* The most init_app calls made on the application.
MaxInit == 2

TrustedOrigin == "https://trusted.example.com"
PartnerOrigin == "https://partner.example.com:8443"
EvilOrigin == "https://evil.example.com"

\* The values the application gives each key.  A trusted origin is an origin
\* string (scheme, host, port), so no entry is empty.
ConfigValues ==
    (METHODS :> { DEFAULT_METHODS, { "POST" }, { "POST", "GET", "TRACE" } }) @@
    (ALLOW_SAME_SITE :> BOOLEAN) @@
    (TRUSTED_ORIGINS :> { {}, { TrustedOrigin, PartnerOrigin } })

Exemptable == { webhook, api, child }

NoHeaders == [h \in {} |-> ""]

Header(name, value) == IF value = None THEN NoHeaders ELSE name :> value[1]

MakeRequest(method, endpoint, g_csrf_exempt, origin, sec_fetch_site, host, forwarded) ==
    [method |-> method,
     endpoint |-> endpoint,
     blueprint |-> request_blueprint(endpoint),
     g_csrf_exempt |-> g_csrf_exempt,
     headers |-> Header("Origin", origin) @@
                 Header("Sec-Fetch-Site", sec_fetch_site) @@
                 Header("X-Forwarded-Host", forwarded),
     host |-> host]

NoRequest == MakeRequest("", None, FALSE, None, None, "", None)

Methods == { "GET", "HEAD", "OPTIONS", "TRACE", "POST", "PUT" }

SecFetchSiteValues ==
    { "same-origin", "none", "same-site", "cross-site",
      "Same-Origin", " none ", "SAME-SITE\t", " Cross-Site",
      "unknown-value", " Unknown-Value ", "", " " }

Origins ==
    { "", "null", "http://localhost", "http://LocalHost", EvilOrigin,
      TrustedOrigin, "http://example.com", "https://example.com",
      "http://example.com:8080", "http://example.com:08080",
      "http://example.com:80", "https://example.com:443",
      "http://example.com:443", "https://example.com:80",
      "http://example.com:0", "http://example.com:abc",
      "http://example.com:99999", "http://[::1", "http://:8080",
      "http://user@example.com:8080/path" }

Hosts == { "localhost", "example.com" }

ForwardedHosts == { None, Some("example.com:8080") }

GateHeaders ==
    { << None, None >>,
      << None, Some("cross-site") >>,
      << Some(EvilOrigin), None >>,
      << Some(TrustedOrigin), Some(" Unknown-Value ") >> }

\* Requests that vary the method, the route and a few header combinations.
GateRequests ==
    { MakeRequest(m, e, FALSE, h[1], h[2], "localhost", None) :
        m \in Methods,
        e \in { None } \cup { Some(x) : x \in Endpoints },
        h \in GateHeaders }

\* Requests for which an earlier handler has set g._csrf_exempt.
MarkedRequests ==
    { MakeRequest(m, e, TRUE, h[1], h[2], "localhost", None) :
        m \in { "GET", "POST" },
        e \in { None, Some("submit") },
        h \in GateHeaders }

\* Requests to a protected view that vary Sec-Fetch-Site against a few origins.
SecFetchSiteRequests ==
    { MakeRequest("POST", Some("submit"), FALSE, o, Some(v), "localhost", None) :
        v \in SecFetchSiteValues,
        o \in { None, Some(""), Some(TrustedOrigin), Some(EvilOrigin),
                Some("http://localhost") } }

\* Requests to a protected view that vary Origin, Host and X-Forwarded-Host,
\* with Sec-Fetch-Site absent.
OriginRequests ==
    { MakeRequest("POST", Some("submit"), FALSE, o, None, h, f) :
        o \in { None } \cup { Some(x) : x \in Origins },
        h \in Hosts,
        f \in ForwardedHosts }

\* The same with an empty Sec-Fetch-Site header.
EmptySecFetchSiteRequests ==
    { MakeRequest("POST", Some("submit"), FALSE, Some(o), Some(""), "example.com", None) :
        o \in Origins }

\* Requests that carry a malformed or foreign Origin to a safe method, to a
\* missing route and to a view that can be exempted.
HostileRequests ==
    { MakeRequest(m, e, FALSE, Some(o), v, "example.com", f) :
        m \in { "TRACE", "POST", "PUT" },
        e \in { None, Some("submit"), Some("webhook") },
        o \in { "http://example.com:abc", EvilOrigin },
        v \in { None, Some("bogus") },
        f \in ForwardedHosts }

Requests ==
    GateRequests \cup MarkedRequests \cup SecFetchSiteRequests \cup
    OriginRequests \cup EmptySecFetchSiteRequests \cup HostileRequests

(***************************************************************************)
(* State                                                                   *)
(***************************************************************************)
VARIABLES
    config,                 \* app.config, the keys of this extension
    _exempt_views,          \* SecFetchCSRF._exempt_views
    _exempt_blueprints,     \* SecFetchCSRF._exempt_blueprints
    before_request_funcs,   \* how many sec_fetch_csrf_protect handlers the app holds
    request,                \* the request being handled
    pc,                     \* "idle", "before_request" or "done"
    handler,                \* the index of the next before_request handler to run
    verdict                 \* the outcome of the handlers run so far

vars == << config, _exempt_views, _exempt_blueprints, before_request_funcs,
           request, pc, handler, verdict >>

app_vars == << config, _exempt_views, _exempt_blueprints, before_request_funcs >>

\* SecFetchCSRF() with app=None, on a fresh Flask application.
Init ==
    /\ config = [k \in {} |-> {}]
    /\ _exempt_views = {}
    /\ _exempt_blueprints = {}
    /\ before_request_funcs = 0
    /\ request = NoRequest
    /\ pc = "idle"
    /\ handler = 0
    /\ verdict = Pending

\* SecFetchCSRF.exempt(view)
exempt(view) ==
    /\ pc = "idle"
    /\ IF view.type = "Blueprint"
       THEN /\ _exempt_blueprints' = _exempt_blueprints \cup { view.name }
            /\ UNCHANGED _exempt_views
       ELSE /\ _exempt_views' = _exempt_views \cup { view_location(view) }
            /\ UNCHANGED _exempt_blueprints
    /\ UNCHANGED << config, before_request_funcs, request, pc, handler, verdict >>

\* app.config[key] = value, by the application
config_setitem(key, value) ==
    /\ pc = "idle"
    /\ config' = setitem(config, key, value)
    /\ UNCHANGED << _exempt_views, _exempt_blueprints, before_request_funcs,
                    request, pc, handler, verdict >>

\* SecFetchCSRF.init_app(app)
init_app ==
    /\ pc = "idle"
    /\ before_request_funcs < MaxInit
    /\ config' = setdefault(setdefault(setdefault(config,
                     METHODS, DEFAULT_METHODS),
                     ALLOW_SAME_SITE, FALSE),
                     TRUSTED_ORIGINS, {})
    /\ before_request_funcs' = before_request_funcs + 1
    /\ UNCHANGED << _exempt_views, _exempt_blueprints, request, pc, handler, verdict >>

\* A request arrives at the application once a handler is registered; the
\* configuration and the registry are not changed while it is handled.
receive(req) ==
    /\ pc = "idle"
    /\ before_request_funcs > 0
    /\ request' = req
    /\ pc' = "before_request"
    /\ handler' = 1
    /\ verdict' = Pending
    /\ UNCHANGED app_vars

\* Flask runs the next registered handler; one that raises ends the request.
before_request ==
    /\ pc = "before_request"
    /\ verdict' = sec_fetch_csrf_protect(request, config,
                                         _exempt_views, _exempt_blueprints)
    /\ IF verdict'.kind = "Allow" /\ handler < before_request_funcs
       THEN /\ handler' = handler + 1
            /\ pc' = "before_request"
       ELSE /\ handler' = handler
            /\ pc' = "done"
    /\ UNCHANGED << request >>
    /\ UNCHANGED app_vars

\* The response is sent and the request context is torn down.
finish_request ==
    /\ pc = "done"
    /\ request' = NoRequest
    /\ pc' = "idle"
    /\ handler' = 0
    /\ verdict' = Pending
    /\ UNCHANGED app_vars

Next ==
    \/ \E view \in Exemptable : exempt(view)
    \/ \E key \in DOMAIN ConfigValues : \E value \in ConfigValues[key] :
          config_setitem(key, value)
    \/ init_app
    \/ \E req \in Requests : receive(req)
    \/ before_request
    \/ finish_request

Spec == Init /\ [][Next]_vars

(***************************************************************************)
(* Properties.  They are stated on the request that has just been handled  *)
(* (pc = "done"), from its fields, the configuration and the registry.     *)
(***************************************************************************)
Done == pc = "done"

Origin == headers_get(request, "Origin")
SecFetchSite == headers_get(request, "Sec-Fetch-Site")
ForwardedHost == headers_get(request, "X-Forwarded-Host")

IsAllow == verdict.kind = "Allow"
IsReject(reason) == verdict.kind = "Reject" /\ verdict.reason = reason

\* The steps of protect(), as opposed to the bypasses of the handler.
ValidationSteps == { "trusted_origin", "sec_fetch_site", "no_headers", "origin" }

ProtectedMethod ==
    /\ request.method \notin { "GET", "HEAD", "OPTIONS", "TRACE" }
    /\ request.method \in config[METHODS]

Routed == request.endpoint # None

\* The three exemptions: the endpoint's view, its blueprint, the request marker.
Exempted ==
    \/ request.g_csrf_exempt
    \/ request.blueprint # None /\ request.blueprint[1] \in _exempt_blueprints
    \/ /\ Routed
       /\ request.endpoint[1] \in DOMAIN view_functions
       /\ view_location(view_functions[request.endpoint[1]]) \in _exempt_views

\* Protected, routed and not exempt.
Validated == ProtectedMethod /\ Routed /\ ~Exempted

OriginTrusted == Origin # None /\ Origin[1] \in config[TRUSTED_ORIGINS]

RecognizedValues == { "same-origin", "none", "same-site", "cross-site" }

Normalized(value) == strip(lower(value))

EffectiveHost ==
    IF ForwardedHost # None THEN ForwardedHost[1] ELSE request.host

\* C1: a validated request whose Origin is not trusted and whose
\* Sec-Fetch-Site header is present gets the verdict the lower-cased, trimmed
\* value and allowSameSite determine: same-origin and none are allowed,
\* same-site is allowed only with allowSameSite, cross-site and every other
\* value are rejected.
C1_SecFetchSiteDecides ==
    (Done /\ Validated /\ ~OriginTrusted /\ SecFetchSite # None) =>
        LET value == Normalized(SecFetchSite[1])
        IN  IF value \in { "same-origin", "none" } THEN IsAllow
            ELSE IF value = "same-site"
            THEN IF config[ALLOW_SAME_SITE] THEN IsAllow
                 ELSE IsReject("Same-site requests are not allowed.")
            ELSE IF value = "cross-site"
            THEN IsReject("Cross-site requests are not allowed.")
            ELSE verdict.kind = "Reject"

C3_TrustedOriginAllowed ==
    (Done /\ Validated /\ OriginTrusted) =>
        IsAllow /\ verdict.step = "trusted_origin"

C3_Witness ==
    /\ Done /\ Validated /\ OriginTrusted
    /\ SecFetchSite # None
    /\ Normalized(SecFetchSite[1]) \notin { "same-origin", "none" }
    /\ IsAllow

\* C4: a request whose view, blueprint or request marker is exempt is allowed
\* whatever its headers, and a protected routed request with none of the
\* three is validated, not treated as exempt.
C4_ExemptionAllows ==
    Done => /\ Exempted => IsAllow
            /\ Validated => verdict.step \in ValidationSteps

C4_Witness ==
    /\ Done /\ ProtectedMethod /\ Routed
    /\ ~request.g_csrf_exempt
    /\ request.blueprint = Some("api")
    /\ "api" \in _exempt_blueprints
    /\ _exempt_views = {}
    /\ SecFetchSite = Some("cross-site")
    /\ IsAllow

\* C5: a validated request with Origin present and not trusted and no
\* Sec-Fetch-Site header is allowed when the host extracted from Origin equals
\* the effective host (X-Forwarded-Host when present, else Host), and is
\* otherwise rejected with "Origin mismatch: <origin>".
C5_OriginComparison ==
    (Done /\ Validated /\ Origin # None /\ ~OriginTrusted /\ SecFetchSite = None) =>
        IF _extract_host(Origin[1]) = [exc |-> "", host |-> Some(EffectiveHost)]
        THEN IsAllow
        ELSE IsReject("Origin mismatch: " \o Origin[1])

\* The port of the Origin is absent or the default of the Origin's own scheme.
DefaultPort(scheme, port) ==
    \/ port.none
    \/ scheme = "http" /\ port.value = 80
    \/ scheme = "https" /\ port.value = 443

\* The normalisation of an Origin by scheme: the hostname alone for an absent
\* or scheme-default port, else hostname:port.
SchemeNormalized(parsed) ==
    IF DefaultPort(parsed.scheme, parsed_port(parsed))
    THEN parsed_hostname(parsed)
    ELSE Some(format_host_port(parsed_hostname(parsed), parsed_port(parsed).value))

\* C6: in the Origin/Host comparison the Origin is reduced to its hostname
\* exactly when its port is absent or the default of its own scheme, and to
\* hostname:port otherwise, and the request is allowed exactly when that
\* equals the effective host.
C6_SchemeDefaultPort ==
    (Done /\ verdict.step = "origin" /\ verdict.kind # "Error") =>
        /\ _extract_host(Origin[1]).host = SchemeNormalized(urlparse(Origin[1]))
        /\ IsAllow <=> SchemeNormalized(urlparse(Origin[1])) = Some(EffectiveHost)

\* C7: every request ends in Allow or in a CSRF rejection with a reason,
\* never in another error.
C7_Total ==
    Done => \/ IsAllow
            \/ verdict.kind = "Reject" /\ verdict.reason # ""

\* A rejection by the Sec-Fetch-Site step of a value that is none of the four.
UnknownValueRejected ==
    /\ Done /\ Validated
    /\ verdict.kind = "Reject"
    /\ verdict.step = "sec_fetch_site"
    /\ SecFetchSite # None
    /\ Normalized(SecFetchSite[1]) \notin RecognizedValues

C9_NoHeadersAllowed ==
    (Done /\ Validated /\ SecFetchSite = None /\ Origin = None) => IsAllow

C9_Witness ==
    /\ Done /\ Validated /\ SecFetchSite = None /\ Origin = None
    /\ ForwardedHost # None
    /\ config[TRUSTED_ORIGINS] # {}
    /\ IsAllow

\* C10: a request whose method is not in protectedMethods, or that matched no
\* route, is allowed whatever its headers; a rejection is of a routed request
\* with a protected method; and a validated cross-site request is rejected.
C10_OnlyProtectedRouted ==
    Done =>
        /\ (request.method \notin config[METHODS] \/ ~Routed) => IsAllow
        /\ verdict.kind = "Reject" => request.method \in config[METHODS] /\ Routed
        /\ (Validated /\ ~OriginTrusted /\ SecFetchSite = Some("cross-site"))
               => verdict.kind = "Reject"

C10_Witness ==
    /\ Done
    /\ request.method = "PUT"
    /\ config[METHODS] = { "POST" }
    /\ Routed /\ ~Exempted
    /\ SecFetchSite = Some("cross-site")
    /\ IsAllow

\* The three tunables and the defaults init_app establishes for them.
Tunables == { METHODS, ALLOW_SAME_SITE, TRUSTED_ORIGINS }

Defaults ==
    (METHODS :> DEFAULT_METHODS) @@ (ALLOW_SAME_SITE :> FALSE) @@
    (TRUSTED_ORIGINS :> {})

\* A step that is a call of init_app: the only one that registers a handler.
IsInitApp == before_request_funcs' = before_request_funcs + 1

\* Every tunable is set after the call: to the value it had if it was set
\* before the call, to its default otherwise.
SetIfAbsent ==
    \A key \in Tunables :
        /\ key \in DOMAIN config'
        /\ config'[key] = IF key \in DOMAIN config THEN config[key]
                          ELSE Defaults[key]

\* The part of C11 about the tunables alone: init_app keeps every value that
\* is set and gives every other tunable its default.
C11_SetIfAbsent == [][IsInitApp => SetIfAbsent]_vars

\* C11: init_app is idempotent: a call keeps every tunable that is set and
\* gives every other tunable its default, a repeated call changes nothing
\* of the application (no value is reset, nothing is registered twice), and
\* the verdict of a handled request is that of one run of the check.
C11_SetupIdempotent ==
    [][ /\ IsInitApp => SetIfAbsent
        /\ (IsInitApp /\ before_request_funcs >= 1) => UNCHANGED app_vars
        /\ pc' = "done" =>
              verdict' = sec_fetch_csrf_protect(request', config',
                                                _exempt_views',
                                                _exempt_blueprints') ]_vars

\* C12: a validated request whose Origin is not trusted and whose
\* Sec-Fetch-Site header is present, with any value including the empty one,
\* gets its verdict from the Sec-Fetch-Site evaluation: neither the no-header
\* bypass nor the Origin comparison is reached.
C12_SecFetchSiteAuthoritative ==
    (Done /\ Validated /\ ~OriginTrusted /\ SecFetchSite # None) =>
        verdict.step = "sec_fetch_site"

\* The same for the values the truth test of protect() lets through.
NonEmptySecFetchSiteAuthoritative ==
    (Done /\ Validated /\ ~OriginTrusted /\ truthy(SecFetchSite)) =>
        verdict.step = "sec_fetch_site"
====
